---- MODULE Spec2Model ----
(***************************************************************************)
(* Model of mipak.py: the Math Invaders PAK packer / unpacker.              *)
(*                                                                         *)
(* Files and paths are sequences of byte values (0..255); a path is the    *)
(* sequence of its character codes.  The host is POSIX (os.sep = "/").     *)
(* An absent file is [exists |-> FALSE, data |-> <<>>].                     *)
(*                                                                         *)
(* Spec        : a directory tree is packed by a fresh instance, the       *)
(*               archive is read back by a second instance and unpacked.   *)
(* SpecArchive : an arbitrary (possibly truncated or corrupt) archive file *)
(*               is read and unpacked.                                     *)
(***************************************************************************)
EXTENDS Integers, Sequences, FiniteSets

VARIABLES
    input_dir,    \* pack's input_dir argument, as spelled by the caller
    tree,         \* regular files under the source directory, in os.walk order
    pre,          \* what the destination path held before pack was called
    pak,          \* the file at pak_filename
    num_entries,  \* self.num_entries
    entries,      \* self.entries, a sequence of [path, offset]
    offset,       \* pack's local `offset`
    file_size,    \* pack's local `file_size`
    k,            \* number of files pack's second walk has handled
    i,            \* number of entries unpack's loop has handled
    files,        \* output file system: regular files (path -> content)
    dirs,         \* output file system: directories
    written,      \* per handled entry, the bytes unpack wrote for it
    pc,           \* position of the run
    err           \* name of the exception that ended the run, or ""

vars == <<input_dir, tree, pre, pak, num_entries, entries, offset, file_size,
          k, i, files, dirs, written, pc, err>>

----------------------------------------------------------------------------
(* Bounds of the model *)

\* largest number of regular files in the source tree
MaxFiles == 3

\* largest entry count of an archive given to the reader in SpecArchive
MaxEntries == 2

----------------------------------------------------------------------------
(* Program constants *)

NUL == 0
SLASH == 47
BACKSLASH == 92
ossep == SLASH
HeaderSize == 4
PathFieldLen == 64
EntrySize == 68

mysterious ==
    << 0, 0, 0, 0, 188, 66, 89, 129, 0, 0, 0, 0, 140, 131, 89, 129,
       140, 131, 89, 129, 136, 131, 89, 129, 59, 174, 247, 191, 0, 32, 86, 129,
       0, 0, 0, 0, 140, 131, 89, 129, 219, 174, 247, 191, 140, 131, 89, 129,
       222, 218, 247, 191, 140, 131, 89, 129, 140, 131, 89, 129, 226, 19, 247, 191,
       89, 183, 94, 1 >>

NoFile == [exists |-> FALSE, data |-> <<>>]
File(d) == [exists |-> TRUE, data |-> d]

\* an optional read size: None, or Some(n)
None == <<>>
Some(n) == <<n>>

----------------------------------------------------------------------------
(* Library functions the program calls *)

Min(a, b) == IF a <= b THEN a ELSE b

Rep(c, n) == [j \in 1..n |-> c]

\* int.to_bytes(4, byteorder='little'); the caller checks ToBytesOverflows first
ToBytes4(n) ==
    << n % 256, (n \div 256) % 256, (n \div 65536) % 256, (n \div 16777216) % 256 >>

\* int.to_bytes(4, ...) raises OverflowError for n >= 2^32
ToBytesOverflows(n) == (n \div 65536) >= 65536

\* struct.unpack('<I', b)[0] for a 4-byte b
UnpackU32(b) == b[1] + 256 * b[2] + 65536 * b[3] + 16777216 * b[4]

\* f.read(n) at position pos of a file holding `data`: at most n bytes
ReadN(data, pos, n) == SubSeq(data, pos + 1, Min(pos + n, Len(data)))

\* str.ljust(width, fill): pads, never truncates
Ljust(s, width, fill) ==
    IF Len(s) >= width THEN s ELSE s \o Rep(fill, width - Len(s))

\* str.replace(old, new) for single characters
Replace(s, old, new) == [j \in 1..Len(s) |-> IF s[j] = old THEN new ELSE s[j]]

\* whether str.encode('ascii') / bytes.decode('ascii') succeeds
IsAscii(s) == \A j \in 1..Len(s) : s[j] < 128

\* str.rstrip(c)
RECURSIVE Rstrip(_, _)
Rstrip(s, c) ==
    IF s # <<>> /\ s[Len(s)] = c THEN Rstrip(SubSeq(s, 1, Len(s) - 1), c) ELSE s

\* os.path.join(a, b) on POSIX
Join(a, b) ==
    IF b # <<>> /\ b[1] = ossep THEN b
    ELSE IF a = <<>> \/ a[Len(a)] = ossep THEN a \o b
    ELSE a \o <<ossep>> \o b

\* str.rfind(sep) + 1
LastSep(p) ==
    IF \E j \in 1..Len(p) : p[j] = ossep
    THEN CHOOSE j \in 1..Len(p) : p[j] = ossep /\ \A m \in (j+1)..Len(p) : p[m] # ossep
    ELSE 0

\* os.path.dirname(p) on POSIX
Dirname(p) ==
    LET head == SubSeq(p, 1, LastSep(p))
    IN  IF head # <<>> /\ head # Rep(ossep, Len(head)) THEN Rstrip(head, ossep) ELSE head

\* the directories os.makedirs(d) has to find or create: d and its parents
RECURSIVE Ancestors(_)
Ancestors(d) ==
    IF d = <<>> \/ Dirname(d) = d THEN {d} \ {<<>>}
    ELSE {d} \cup Ancestors(Dirname(d))

\* os.makedirs(d, exist_ok=True): the exception it raises, or ""
MakedirsError(d, fs) ==
    IF d = <<>> THEN "FileNotFoundError"
    ELSE IF d \in DOMAIN fs THEN "FileExistsError"
    ELSE IF \E a \in Ancestors(d) : a \in DOMAIN fs THEN "NotADirectoryError"
    ELSE ""

\* open(p, 'wb'): the exception it raises, or ""
OpenWriteError(p, fs, ds) ==
    IF p = <<>> THEN "FileNotFoundError"
    ELSE IF p[Len(p)] = ossep \/ p \in ds THEN "IsADirectoryError"
    ELSE IF \E a \in Ancestors(Dirname(p)) : a \in DOMAIN fs THEN "NotADirectoryError"
    ELSE ""

\* a mapping with one more (or one replaced) file
WithFile(fs, p, d) == [q \in DOMAIN fs \cup {p} |-> IF q = p THEN d ELSE fs[q]]

----------------------------------------------------------------------------
(* The source directory *)

Name_ab == <<97, 98>>
Name_cb == <<99, 98>>
Name_s == <<115>>
Name_63 == Rep(120, PathFieldLen - 1)
Name_64 == Rep(120, PathFieldLen)
Name_65 == Rep(120, PathFieldLen + 1)
Name_nonascii == <<233>>

\* the files a source tree may hold, as <<directory below the top, name>>,
\* listed in the order os.walk visits them (top-down)
Candidates ==
    << <<<<>>, Name_ab>>, <<<<>>, Name_cb>>, <<<<>>, Name_63>>, <<<<>>, Name_64>>,
       <<<<>>, Name_65>>, <<<<>>, Name_nonascii>>, <<Name_s, Name_ab>> >>

Datas == { <<>>, <<171>>, <<205, 239>> }

Nth(S, j) == CHOOSE x \in S : Cardinality({y \in S : y < x}) = j - 1

TreeOf(S, dat) ==
    [j \in 1..Cardinality(S) |->
        [dir  |-> Candidates[Nth(S, j)][1],
         name |-> Candidates[Nth(S, j)][2],
         data |-> dat[Nth(S, j)]]]

InputDirs == { <<100>>, <<100, SLASH>> }

output_dir == <<111>>

\* the file's true path relative to the source directory
RelPath(f) == IF f.dir = <<>> THEN f.name ELSE f.dir \o <<ossep>> \o f.name

\* os.walk(top): one (root, files) per directory, top-down
Walk(top, t) ==
    LET sub == { t[j].dir : j \in 1..Len(t) } \ {<<>>}
        at(d) == SelectSeq(t, LAMBDA f : f.dir = d)
    IN  << [root |-> top, files |-> at(<<>>)] >> \o
        (IF sub = {} THEN <<>>
         ELSE << [root |-> Join(top, Name_s), files |-> at(Name_s)] >>)

RECURSIVE SumLen(_)
SumLen(w) == IF w = <<>> THEN 0 ELSE Len(w[1].files) + SumLen(Tail(w))

\* the (root, file) pairs of the nested loops over os.walk
RECURSIVE WalkFiles(_)
WalkFiles(w) ==
    IF w = <<>> THEN <<>>
    ELSE [j \in 1..Len(w[1].files) |-> [root |-> w[1].root, file |-> w[1].files[j]]]
         \o WalkFiles(Tail(w))

----------------------------------------------------------------------------
(* MathInvadersPakFile.pack *)

\* faulty variant of Unlinked: the destination is never deleted
UnlinkedKept(f) == f

\* "if p.exists(): os.unlink(pak_filename)"
Unlinked(f) == IF f.exists THEN NoFile ELSE f

\* the offset of the first file's content
FirstOffset(n) == HeaderSize + ((n + 1) * EntrySize)

\* "entry_path = file_path[len(input_dir) + 1:]"
EntryPath(file_path, dir) == SubSeq(file_path, Len(dir) + 2, Len(file_path))

\* faulty variant of AdvanceOffset: only the previous file's size is added to the base
AdvanceOffsetPrevOnly(off, size) == FirstOffset(num_entries) + size

\* "offset += file_size"
AdvanceOffset(off, size) == off + size

\* open(pak_filename, 'ab') followed by g.write(d)
Appended(f, d) == File(f.data \o d)

\* the path field of an entry, before encoding
FmtPath(entry_path) == Replace(Ljust(entry_path, PathFieldLen, NUL), SLASH, BACKSLASH)

\* the loop writing the entry table: what reaches the file, and the exception
\* that stops it (or "")
RECURSIVE WriteEntries(_, _)
WriteEntries(es, out) ==
    IF es = <<>> THEN [out |-> out, err |-> ""]
    ELSE LET fmt_path == FmtPath(es[1].path)
         IN  IF ~IsAscii(fmt_path) THEN [out |-> out, err |-> "UnicodeEncodeError"]
             ELSE IF ToBytesOverflows(es[1].offset)
                  THEN [out |-> out \o fmt_path, err |-> "OverflowError"]
             ELSE WriteEntries(Tail(es), out \o fmt_path \o ToBytes4(es[1].offset))

\* everything the "r+b" block writes from position 0
HeaderWrites(n, es, existing_data) ==
    IF ToBytesOverflows(n) THEN [out |-> <<>>, err |-> "OverflowError"]
    ELSE LET t == WriteEntries(es, ToBytes4(n))
         IN  IF t.err # "" THEN t
             ELSE [out |-> t.out \o mysterious \o existing_data, err |-> ""]

\* a file opened "r+b" after `out` was written at position 0
Overwritten(existing_data, out) ==
    out \o SubSeq(existing_data, Len(out) + 1, Len(existing_data))

PackBegin ==
    /\ pc = "new"
    /\ pak' = Unlinked(pak)
    /\ num_entries' = num_entries + SumLen(Walk(input_dir, tree))
    /\ offset' = FirstOffset(num_entries')
    /\ file_size' = 0
    /\ k' = 0
    /\ pc' = "walk"
    /\ UNCHANGED <<input_dir, tree, pre, entries, i, files, dirs, written, err>>

PackFile ==
    /\ pc = "walk"
    /\ k < Len(WalkFiles(Walk(input_dir, tree)))
    /\ LET wf == WalkFiles(Walk(input_dir, tree))[k + 1]
           file_path == Join(wf.root, wf.file.name)
           entry_path == EntryPath(file_path, input_dir)
       IN  /\ offset' = AdvanceOffset(offset, file_size)
           /\ entries' = Append(entries, [path |-> entry_path, offset |-> offset'])
           /\ file_size' = Len(wf.file.data)
           /\ pak' = Appended(pak, wf.file.data)
    /\ k' = k + 1
    /\ UNCHANGED <<input_dir, tree, pre, num_entries, i, files, dirs, written, pc, err>>

PackHeader ==
    /\ pc = "walk"
    /\ k = Len(WalkFiles(Walk(input_dir, tree)))
    /\ IF ~pak.exists
       THEN /\ pc' = "error"
            /\ err' = "FileNotFoundError"
            /\ pak' = pak
       ELSE LET w == HeaderWrites(num_entries, entries, pak.data)
            IN  /\ pak' = File(Overwritten(pak.data, w.out))
                /\ err' = w.err
                /\ pc' = IF w.err = "" THEN "archive" ELSE "error"
    /\ UNCHANGED <<input_dir, tree, pre, num_entries, entries, offset, file_size,
                   k, i, files, dirs, written>>

----------------------------------------------------------------------------
(* MathInvadersPakFile.__init__ with a file name *)

\* faulty variant of StructUnpack: a short buffer is accepted, as int.from_bytes would
StructUnpackLenient(b) ==
    [err |-> "", val |-> UnpackU32(b \o Rep(0, 4 - Min(4, Len(b))))]

\* struct.unpack('<I', b): raises struct.error unless b holds exactly 4 bytes
StructUnpack(b) ==
    IF Len(b) # 4 THEN [err |-> "struct.error", val |-> 0]
    ELSE [err |-> "", val |-> UnpackU32(b)]

\* "entry_path.rstrip('\x00').replace('\\', os.sep)"
NormPath(raw) == Replace(Rstrip(raw, NUL), BACKSLASH, ossep)

\* the loop over range(self.num_entries), reading from position pos
RECURSIVE ParseEntries(_, _, _, _)
ParseEntries(data, pos, n, acc) ==
    IF n = 0 THEN [entries |-> acc, err |-> ""]
    ELSE LET raw == ReadN(data, pos, PathFieldLen)
             u == StructUnpack(ReadN(data, pos + Len(raw), 4))
         IN  IF ~IsAscii(raw) THEN [entries |-> acc, err |-> "UnicodeDecodeError"]
             ELSE IF u.err # "" THEN [entries |-> acc, err |-> u.err]
             ELSE ParseEntries(data, pos + Len(raw) + 4, n - 1,
                               Append(acc, [path |-> NormPath(raw), offset |-> u.val]))

\* the constructor's result: the instance's fields, or the exception
ReadPak(data) ==
    LET h == StructUnpack(ReadN(data, 0, HeaderSize))
    IN  IF h.err # "" THEN [num_entries |-> 0, entries |-> <<>>, err |-> h.err]
        ELSE LET t == ParseEntries(data, HeaderSize, h.val, <<>>)
             IN  [num_entries |-> h.val, entries |-> t.entries, err |-> t.err]

Construct ==
    /\ pc = "archive"
    /\ LET r == ReadPak(pak.data)
       IN  IF r.err # ""
           THEN /\ pc' = "error"
                /\ err' = r.err
                /\ UNCHANGED <<num_entries, entries>>
           ELSE /\ pc' = "loaded"
                /\ err' = ""
                /\ num_entries' = r.num_entries
                /\ entries' = r.entries
    /\ i' = 0
    /\ UNCHANGED <<input_dir, tree, pre, pak, offset, file_size, k, files, dirs, written>>

----------------------------------------------------------------------------
(* MathInvadersPakFile.unpack *)

\* faulty variant of SizeOf: the next offset is taken as the size
SizeOfNextOffset(j, n, es) ==
    IF j < n - 1 THEN Some(es[j + 2].offset) ELSE None

\* the size unpack reads for entry number j (counted from 0)
SizeOf(j, n, es) ==
    IF j < n - 1 THEN Some(es[j + 2].offset - es[j + 1].offset) ELSE None

\* whether f.read(size) raises ValueError
ReadRaises(size) == size # None /\ size[1] < -1

\* f.seek(off) followed by f.read(size)
ReadAt(data, off, size) ==
    IF size = None \/ size[1] = -1 THEN SubSeq(data, off + 1, Len(data))
    ELSE ReadN(data, off, size[1])

UnpackEntry ==
    /\ pc = "loaded"
    /\ i < Len(entries)
    /\ LET entry_path == entries[i + 1].path
           off == entries[i + 1].offset
           file_path == Join(output_dir, entry_path)
           d == Dirname(file_path)
           size == SizeOf(i, num_entries, entries)
           made == dirs \cup Ancestors(d)
       IN  IF MakedirsError(d, files) # ""
           THEN /\ pc' = "error"
                /\ err' = MakedirsError(d, files)
                /\ UNCHANGED <<files, dirs, written, i>>
           ELSE IF OpenWriteError(file_path, files, made) # ""
           THEN /\ pc' = "error"
                /\ err' = OpenWriteError(file_path, files, made)
                /\ dirs' = made
                /\ UNCHANGED <<files, written, i>>
           ELSE IF ReadRaises(size)
           THEN /\ pc' = "error"
                /\ err' = "ValueError"
                /\ dirs' = made
                /\ files' = WithFile(files, file_path, <<>>)
                /\ UNCHANGED <<written, i>>
           ELSE /\ dirs' = made
                /\ files' = WithFile(files, file_path, ReadAt(pak.data, off, size))
                /\ written' = Append(written, ReadAt(pak.data, off, size))
                /\ i' = i + 1
                /\ UNCHANGED <<pc, err>>
    /\ UNCHANGED <<input_dir, tree, pre, pak, num_entries, entries, offset, file_size, k>>

UnpackDone ==
    /\ pc = "loaded"
    /\ i = Len(entries)
    /\ pc' = "done"
    /\ UNCHANGED <<input_dir, tree, pre, pak, num_entries, entries, offset, file_size,
                   k, i, files, dirs, written, err>>

----------------------------------------------------------------------------
(* Spec: pack a directory tree with a fresh instance, then read and unpack *)

PreFiles == { NoFile, File(<<222, 173>>) }

Init ==
    /\ input_dir \in InputDirs
    /\ \E S \in SUBSET (1..Len(Candidates)) :
          /\ Cardinality(S) <= MaxFiles
          /\ \E dat \in [S -> Datas] : tree = TreeOf(S, dat)
    /\ pre \in PreFiles
    /\ pak = pre
    /\ num_entries = 0
    /\ entries = <<>>
    /\ offset = 0
    /\ file_size = 0
    /\ k = 0
    /\ i = 0
    /\ files = <<>>
    /\ dirs = {<<ossep>>}
    /\ written = <<>>
    /\ pc = "new"
    /\ err = ""

Next ==
    \/ PackBegin
    \/ PackFile
    \/ PackHeader
    \/ Construct
    \/ UnpackEntry
    \/ UnpackDone

Spec == Init /\ [][Next]_vars

----------------------------------------------------------------------------
(* SpecArchive: read and unpack a given archive file *)

\* the path stored in entry j of a given archive
ArchivePath(j) ==
    IF j = 1 THEN Name_ab
    ELSE IF j = 2 THEN Name_s \o <<BACKSLASH>> \o Name_ab
    ELSE <<96 + j>>

ArchiveContent == <<17, 34, 51, 68>>

\* offsets an entry of a given archive with n entries may hold
ArchiveOffsets(n) ==
    LET cs == FirstOffset(n)
    IN  { cs, cs + 1, cs + 3, cs + Len(ArchiveContent), cs + Len(ArchiveContent) + 2 }

RECURSIVE ArchiveTable(_, _, _)
ArchiveTable(paths, offs, j) ==
    IF j > Len(paths) THEN <<>>
    ELSE Ljust(paths[j], PathFieldLen, NUL) \o ToBytes4(offs[j])
         \o ArchiveTable(paths, offs, j + 1)

ArchiveBytes(paths, offs) ==
    ToBytes4(Len(paths)) \o ArchiveTable(paths, offs, 1) \o mysterious \o ArchiveContent

\* where a given archive may be cut short
CutPoints(n, full) ==
    { HeaderSize - 1, full - 1, full } \cup
    { HeaderSize + EntrySize * j + c : j \in 0..n, c \in {0, 30, PathFieldLen, EntrySize - 1} }

InitArchive ==
    /\ \E n \in 0..MaxEntries :
       \E paths \in [1..n -> BOOLEAN], offs \in [1..n -> ArchiveOffsets(n)] :
          LET full == ArchiveBytes(
                         [j \in 1..n |-> IF paths[j] THEN ArchivePath(j) ELSE Name_nonascii],
                         offs)
          IN  \E cut \in CutPoints(n, Len(full)) :
                 pak = File(SubSeq(full, 1, Min(cut, Len(full))))
    /\ pre = pak
    /\ input_dir = <<100>>
    /\ tree = <<>>
    /\ num_entries = 0
    /\ entries = <<>>
    /\ offset = 0
    /\ file_size = 0
    /\ k = 0
    /\ i = 0
    /\ files = <<>>
    /\ dirs = {<<ossep>>}
    /\ written = <<>>
    /\ pc = "archive"
    /\ err = ""

NextArchive ==
    \/ Construct
    \/ UnpackEntry
    \/ UnpackDone

SpecArchive == InitArchive /\ [][NextArchive]_vars

----------------------------------------------------------------------------
(* Definitions used by the properties *)

RECURSIVE Contents(_, _)
\* the concatenated contents of the first m files of t
Contents(t, m) == IF m = 0 THEN <<>> ELSE Contents(t, m - 1) \o t[m].data

RECURSIVE SumSizes(_, _)
\* the summed sizes of the first m files of t
SumSizes(t, m) == IF m = 0 THEN 0 ELSE SumSizes(t, m - 1) + Len(t[m].data)

PackFinished == pc \in {"archive", "loaded", "done"}

SourceFiles == { <<RelPath(tree[j]), tree[j].data>> : j \in 1..Len(tree) }

UnderOutput(p) ==
    /\ Len(p) > Len(output_dir) + 1
    /\ SubSeq(p, 1, Len(output_dir) + 1) = output_dir \o <<ossep>>

UnpackedFiles ==
    { <<SubSeq(p, Len(output_dir) + 2, Len(p)), files[p]>> :
        p \in { q \in DOMAIN files : UnderOutput(q) } }

\* every path of the tree fits the 64-byte ASCII path field with its terminator
Encodable ==
    \A j \in 1..Len(tree) :
        IsAscii(RelPath(tree[j])) /\ Len(RelPath(tree[j])) < PathFieldLen

\* the archive is shorter than its header and declared entry table
Truncated(data) ==
    \/ Len(data) < HeaderSize
    \/ Len(data) < HeaderSize + EntrySize * UnpackU32(SubSeq(data, 1, HeaderSize))

\* where the content of entry j (counted from 1) ends: the next entry's offset,
\* or the end of the file for the last entry
NextOffset(j) == IF j < Len(entries) THEN entries[j + 1].offset ELSE Len(pak.data)

\* the bytes of entry j lie inside the archive file
InBounds(j) ==
    /\ entries[j].offset <= NextOffset(j)
    /\ NextOffset(j) <= Len(pak.data)

----------------------------------------------------------------------------
(* Properties *)

\* C1 (Spec): round trip. For a tree whose paths the format can hold, pack, read
\* and unpack never fail, and once unpack is done the files under output_dir are
\* exactly the source files, path for path and byte for byte.
C1_RoundTrip ==
    Encodable =>
        /\ pc # "error"
        /\ pc = "done" => /\ UnpackedFiles = SourceFiles
                          /\ \A p \in DOMAIN files : UnderOutput(p)

\* C2 (Spec): cumulative offsets. Packing with a fresh instance, the offset
\* recorded for the j-th file is 4 + (N + 1) * 68 plus the summed sizes of the
\* files before it, N being the number of files.
C2_CumulativeOffsets ==
    pc \in {"walk", "archive"} =>
        /\ Len(entries) = k
        /\ \A j \in 1..Len(entries) :
              entries[j].offset = 4 + (Len(tree) + 1) * 68 + SumSizes(tree, j - 1)

\* C2 witness: three files packed, the first two non-empty, the third one's
\* offset being base + s_0 + s_1 and not base + s_1
C2_Witness ==
    /\ pc = "archive"
    /\ Len(tree) = 3
    /\ Len(tree[1].data) = 1
    /\ Len(tree[2].data) = 2
    /\ entries[3].offset = FirstOffset(3) + 3

\* C3 (Spec): header consistency. In an archive pack produced, the trailer
\* follows exactly entry_count 68-byte entries, and every entry's offset lies
\* in [4 + 68 * (entry_count + 1), file length].
C3_HeaderConsistency ==
    (pc = "archive") =>
        LET n == UnpackU32(SubSeq(pak.data, 1, HeaderSize))
            cs == HeaderSize + EntrySize * (n + 1)
            off(j) == UnpackU32(SubSeq(pak.data, HeaderSize + EntrySize * j + PathFieldLen + 1,
                                       HeaderSize + EntrySize * (j + 1)))
        IN  /\ Len(pak.data) >= cs
            /\ SubSeq(pak.data, cs - EntrySize + 1, cs) = mysterious
            /\ \A j \in 0..(n - 1) : off(j) >= cs /\ off(j) <= Len(pak.data)

\* C4 (Spec): path length limit. When some file's relative path is 64 bytes or
\* longer, pack does not produce an archive.
C4_PathLengthLimit ==
    (\E j \in 1..Len(tree) : Len(RelPath(tree[j])) >= PathFieldLen) => ~PackFinished

\* C5 (Spec): empty directory. Packing a tree without files does not fail and
\* gives the 72-byte archive of a zero count and the trailer; unpacking it
\* extracts nothing.
C5_EmptyDirectory ==
    (tree = <<>>) =>
        /\ pc # "error"
        /\ PackFinished => pak = File(ToBytes4(0) \o mysterious)
        /\ pc = "done" => DOMAIN files = {}

\* C6 (Spec): relative paths. However input_dir is spelled, the entries pack
\* records are, in order, the complete relative paths of the files of the tree.
C6_RelativePaths ==
    pc \in {"walk", "archive"} =>
        /\ \A j \in 1..Len(entries) : j <= Len(tree) /\ entries[j].path = RelPath(tree[j])
        /\ pc = "archive" => Len(entries) = Len(tree)

\* C7 (SpecArchive): truncated archive. Reading a file shorter than its header
\* and declared table ends in a format error and never yields an instance.
C7_TruncatedArchive ==
    Truncated(pak.data) =>
        /\ pc \in {"archive", "error"}
        /\ pc = "error" => err \in {"struct.error", "UnicodeDecodeError"}

\* C7 witness: the read of a file cut in the middle of a path field has failed
C7_Witness ==
    /\ pc = "error"
    /\ err = "struct.error"
    /\ Len(pak.data) > HeaderSize + EntrySize
    /\ (Len(pak.data) - HeaderSize) % EntrySize = 30
    /\ Truncated(pak.data)

\* C8 (SpecArchive): corrupt offsets. unpack writes no output for an entry
\* whose offset, or offset plus inferred size, lies outside the archive file,
\* or whose next offset is smaller than its own.
C8_CorruptOffsets ==
    \A j \in 1..Len(written) : InBounds(j)

\* C9 (SpecArchive): size inference. For an entry whose bytes lie inside the
\* archive, unpack writes exactly the bytes from its offset up to the next
\* entry's offset, or up to the end of the file for the last entry.
C9_SizeInference ==
    \A j \in 1..Len(written) :
        InBounds(j) =>
            /\ written[j] = SubSeq(pak.data, entries[j].offset + 1, NextOffset(j))
            /\ Len(written[j]) = NextOffset(j) - entries[j].offset

\* C9 witness: a two-entry archive unpacked into a 1-byte and a 3-byte file
C9_Witness ==
    /\ pc = "done"
    /\ Len(entries) = 2
    /\ Len(written) = 2
    /\ InBounds(1) /\ InBounds(2)
    /\ Len(written[1]) = 1
    /\ Len(written[2]) = 3

\* C10 (Spec): overwrite without merge. While and after pack runs, the
\* destination holds only what pack wrote: the contents of the files handled so
\* far, and in the end header, table, trailer and the contents of the tree,
\* whatever the destination held before.
C10_OverwriteWithoutMerge ==
    /\ pc = "walk" => /\ pak.exists <=> k > 0
                      /\ pak.data = Contents(tree, k)
    /\ pc = "archive" =>
          pak = File(HeaderWrites(Len(tree), entries, Contents(tree, Len(tree))).out)

\* C10 witness: a tree was packed onto a destination that held other bytes
C10_Witness ==
    /\ pc = "archive"
    /\ pre.exists
    /\ pre.data # <<>>
    /\ Len(tree) >= 2

====
